---- MODULE Spec2Model ----
(***************************************************************************)
(* A model of the useWindup hook (src/src/react/useWindup.ts): the reducer *)
(* that holds the progression, the five effects that react to a render,    *)
(* the advance timer kept in timeoutRef and the deferred onFinished        *)
(* timeout.                                                                 *)
(*                                                                         *)
(* One action is one task of the JavaScript event loop: a timer firing, a  *)
(* call of skip() or rewind(), a render by the caller with changed props,  *)
(* each with the render its dispatches cause, or the flush of the effects  *)
(* of the last render, which React defers to a task of its own and runs at *)
(* the latest before the next render; or the run of the cleanups after an  *)
(* unmount, where React defers them.  Tasks interleave in any order.       *)
(*                                                                         *)
(* The Windup module itself (next, rewind, fastForward, isFinished,        *)
(* lastPlayedElement, nextElement), Pace and OnChar are imported by the    *)
(* hook and are modelled from their description in spec.md, section 4.1    *)
(* and 4.2.  A windup is a record: the length of its sequence, whether its *)
(* metadata carries an onChar callback and a pace function, the cursor,    *)
(* and the identity of the JavaScript object (React compares effect        *)
(* dependencies with Object.is): 0 and above for the objects the state     *)
(* went through, -1 for a windupInit that is no longer the state's object, *)
(* -2 and below for a windupInit the caller has just passed in place of   *)
(* another.  Elements are named by their index; at    *)
(* most one of them is the empty string, which JavaScript takes as false.  *)
(* options.onFinished is taken to be supplied, and options itself may or   *)
(* may not be a new object at each render.                                 *)
(***************************************************************************)
EXTENDS Integers, Sequences, FiniteSets, TLC

\* Longest sequence the model plays.
MaxLen == 3

\* The value of an absent element (lastPlayedElement at cursor 0, nextElement
\* when finished) and of the empty timeoutRef.
NoElement == -1
NullHandle == 0

VARIABLES
  windup,          \* state.windup: [len, onChar, pace, blank, cursor, id]
  windupInit,      \* the windupInit of the last render; id 0 when it is the object state.windup is
  didFinishOnce,   \* state.didFinishOnce
  skipped,         \* options.skipped as of the last render: "absent", "true", "false"
  timeoutRef,      \* timeoutRef.current: the handle of the last advance timer
  timers,          \* advance timers that are live (scheduled, not fired or cleared)
  finTimers,       \* deferred onFinished timeouts that are live
  finCleanup,      \* the timeout the onFinished effect's cleanup will clear
  windupCleanup,   \* whether the windup effect registered a cleanup
  pend,            \* the effects of the last render that are still to run: what changed in it; after an unmount, that the cleanups are still to run
  seen,            \* the values of windupIsFinished the skip functions returned so far closed over
  mounted,         \* the component is mounted
  inline,          \* the caller builds the options object anew at every render
  lastOp,          \* history: the task run last
  finishedCalls,   \* history: onFinished calls in this play-through (2 = more than one)
  lastFired,       \* history: what fired in the last task and whether it was superseded
  log,             \* history: the callbacks, timer settings and the finish dispatch of the last task, in order
  cycle            \* history: the control signal went to true ("true"), then to false ("false"), with nothing but timeouts and effects since; "called" when onFinished was called meanwhile

vars == <<windup, windupInit, didFinishOnce, skipped, timeoutRef, timers, finTimers,
          finCleanup, windupCleanup, pend, seen, mounted, inline, lastOp,
          finishedCalls, lastFired, log, cycle>>

Lens == 0..MaxLen
Paces == {"none", "custom"}
Signals == {"absent", "true", "false"}

\* The windups a caller can pass as windupInit: nothing played yet.
InitWindups ==
  {w \in [len : Lens, onChar : BOOLEAN, pace : Paces, blank : {NoElement, 0},
          cursor : {0}, id : {0}] :
     w.blank < w.len}

\* The windups a caller passes in place of w: another text with the same
\* callbacks.
Replacements(w) ==
  {v \in InitWindups :
     /\ v.onChar = w.onChar
     /\ v.pace = w.pace
     /\ (v.len > 0 /\ w.len > 0) => v.blank = w.blank}

----------------------------------------------------------------------------
\* The Windup module (spec.md 4.1)

isFinished(w) == w.cursor = w.len

\* The identity of an object made from w: positive, and not the one of w.
NewId(w) == (IF w.id < 0 THEN 0 ELSE w.id) + 1

\* The identity of a windup the caller passes in place of w.
OtherId(w) == (IF w.id < -1 THEN w.id ELSE -1) - 1

\* w is a windup the caller passed in place of another.
IsReplacement(w) == w.id < -1

next(w) ==
  IF isFinished(w) THEN w
  ELSE [w EXCEPT !.cursor = @ + 1, !.id = NewId(w)]

rewind(w) == [w EXCEPT !.cursor = 0, !.id = NewId(w)]

fastForward(w) == [w EXCEPT !.cursor = w.len, !.id = NewId(w)]

\* Whether JavaScript takes the element el of w as true: an absent element
\* (undefined) and the empty string are false.
Truthy(w, el) == el # NoElement /\ el # w.blank

lastPlayedElement(w) == IF w.cursor = 0 THEN NoElement ELSE w.cursor - 1

nextElement(w) == IF isFinished(w) THEN NoElement ELSE w.cursor

\* Pace (spec.md 4.2).  The pace function of a windup's metadata is the caller's
\* own: this one returns a negative, a zero and a positive delay.
customPace(lastEl, nextEl) == nextEl - 2

defaultGetPace(lastEl, nextEl) == 20

paceFromWindup(w) == w.pace

\* OnChar: whether any context of the windup carries an onChar callback.
onCharsFromWindup(w) == w.onChar

----------------------------------------------------------------------------
\* The reducer

initWindupState(w) == [windup |-> w, didFinishOnce |-> FALSE]

\* The reducer with the slip of a "rewind" that keeps didFinishOnce.
windupReducerRewindKeepsFlag(state, action) ==
  CASE action.type = "replace" -> initWindupState(action.windup)
    [] action.type = "next" -> [state EXCEPT !.windup = next(state.windup)]
    [] action.type = "rewind" -> [state EXCEPT !.windup = rewind(state.windup)]
    [] action.type = "fast-forward" ->
         [state EXCEPT !.windup = fastForward(state.windup)]
    [] action.type = "finish" -> [state EXCEPT !.didFinishOnce = TRUE]
    [] OTHER -> state

\* The reducer with the slip of fast-forward rewinding.
windupReducerSkipRewinds(state, action) ==
  CASE action.type = "replace" -> initWindupState(action.windup)
    [] action.type = "next" -> [state EXCEPT !.windup = next(state.windup)]
    [] action.type \in {"rewind", "fast-forward"} ->
         [windup |-> rewind(state.windup), didFinishOnce |-> FALSE]
    [] action.type = "finish" -> [state EXCEPT !.didFinishOnce = TRUE]
    [] OTHER -> state

windupReducer(state, action) ==
  CASE action.type = "replace" -> initWindupState(action.windup)
    [] action.type = "next" -> [state EXCEPT !.windup = next(state.windup)]
    [] action.type = "rewind" ->
         [windup |-> rewind(state.windup), didFinishOnce |-> FALSE]
    [] action.type = "fast-forward" ->
         [state EXCEPT !.windup = fastForward(state.windup)]
    [] action.type = "finish" -> [state EXCEPT !.didFinishOnce = TRUE]
    [] OTHER -> state

NoWindup ==
  [len |-> 0, onChar |-> FALSE, pace |-> "none", blank |-> NoElement,
   cursor |-> 0, id |-> 0]
Act(t) == [type |-> t, windup |-> NoWindup]
ReplaceAct(w) == [type |-> "replace", windup |-> w]


----------------------------------------------------------------------------
\* The driver: the hook's state, refs, props, live timeouts and the history of
\* one task, as one record the handlers and effects transform.

Bump(n) == IF n >= 2 THEN 2 ELSE n + 1

\* An entry of the log of a task: onChar for element i ("reveal"), the
\* advance timer that will play element i being set ("timer"),
\* onFinished being called ("onFinished"), didFinishOnce being set ("flag").
Event(e, i) == [e |-> e, i |-> i]

\* No effect is waiting to run.
NoPend ==
  [on |-> FALSE, first |-> FALSE, initCh |-> FALSE, skCh |-> FALSE,
   optsCh |-> FALSE, windupCh |-> FALSE, finCh |-> FALSE, dfoCh |-> FALSE]

Pack ==
  [windup |-> windup, windupInit |-> windupInit, didFinishOnce |-> didFinishOnce,
   skipped |-> skipped, timeoutRef |-> timeoutRef,
   timers |-> timers, finTimers |-> finTimers, finCleanup |-> finCleanup,
   windupCleanup |-> windupCleanup, pend |-> pend, seen |-> seen,
   queue |-> <<>>, finishedCalls |-> finishedCalls, lastFired |-> "none",
   log |-> <<>>]

\* setTimeout and clearTimeout: a handle is the least number no live timeout has.
NewHandle(live) ==
  CHOOSE h \in 1..(Cardinality(live) + 1) :
    /\ \A t \in live : t.h # h
    /\ \A g \in 1..(h - 1) : \E t \in live : t.h = g

clearTimeout(live, h) == {t \in live : t.h # h}

\* dispatch: the reducer applied to the hook's state.  A rewind, or a replace
\* by a windup the caller passed in place of another (the first render's
\* replace is by the windup the hook was given), starts a new play-through: the
\* history counts start again, and what is still queued belongs to the
\* play-through (the sequence) it superseded.
Reduce(d, a) ==
  LET s == windupReducer([windup |-> d.windup, didFinishOnce |-> d.didFinishOnce], a)
      replaced == a.type = "replace" /\ IsReplacement(a.windup)
      reset == a.type = "rewind" \/ replaced
  IN [d EXCEPT
        !.windup = s.windup,
        !.didFinishOnce = s.didFinishOnce,
        !.finishedCalls = IF reset THEN 0 ELSE @,
        !.log = IF a.type = "finish" THEN Append(@, Event("flag", 0)) ELSE @,
        !.finTimers = IF reset THEN {[t EXCEPT !.stale = TRUE] : t \in @} ELSE @,
        !.timers = IF replaced
                   THEN {[t EXCEPT !.stale = TRUE] : t \in @} ELSE @]

dispatch(d, a) == [d EXCEPT !.queue = Append(@, a)]

RECURSIVE ReduceAll(_, _)
ReduceAll(d, q) ==
  IF q = <<>> THEN d ELSE ReduceAll(Reduce(d, Head(q)), Tail(q))

----------------------------------------------------------------------------
\* The effects, in the order the hook declares them

\* useEffect(() => dispatch({type: "replace", windup: windupInit}), [windupInit])
ReplaceEffect(d, w) == dispatch(d, ReplaceAct(w))

\* useEffect on [options.skipped]
SkippedEffect(d, sk) ==
  LET c == IF d.timeoutRef # NullHandle
           THEN [d EXCEPT !.timers = clearTimeout(@, d.timeoutRef)]
           ELSE d
  IN IF sk = "true" THEN dispatch(c, Act("fast-forward"))
     ELSE IF sk = "false" THEN dispatch(c, Act("rewind"))
     ELSE c

\* useEffect on [windup]: onChar for the last played element
OnCharEffect(d) ==
  LET lastEl == lastPlayedElement(d.windup)
  IN IF onCharsFromWindup(d.windup) /\ Truthy(d.windup, lastEl)
     THEN [d EXCEPT !.log = Append(@, Event("reveal", lastEl))]
     ELSE d

\* useEffect on [didFinishOnce, windupIsFinished, options]: its cleanup, its body
OnFinishedCleanup(d) ==
  IF d.finCleanup # NullHandle
  THEN [d EXCEPT !.finTimers = clearTimeout(@, d.finCleanup)]
  ELSE d

OnFinishedEffect(d) ==
  IF d.didFinishOnce = FALSE /\ isFinished(d.windup)
  THEN LET h == NewHandle(d.finTimers)
       IN [d EXCEPT !.finTimers = @ \cup {[h |-> h, stale |-> FALSE]},
                    !.finCleanup = h]
  ELSE [d EXCEPT !.finCleanup = NullHandle]

\* useEffect on [windup, windupIsFinished]: its cleanup, its body
\* The windup effect with the slip of a cleanup that clears nothing.
WindupCleanupKeepsTimer(d) == d

WindupCleanup(d) ==
  IF d.windupCleanup /\ d.timeoutRef # NullHandle
  THEN [d EXCEPT !.timers = clearTimeout(@, d.timeoutRef)]
  ELSE d

PaceDelay(w) ==
  LET getPace(l, n) == IF paceFromWindup(w) = "custom" THEN customPace(l, n)
                       ELSE defaultGetPace(l, n)
      lastEl == lastPlayedElement(w)
      nextEl == nextElement(w)
  IN IF Truthy(w, lastEl) THEN getPace(lastEl, nextEl) ELSE 0

WindupEffect(d) ==
  IF ~isFinished(d.windup)
  THEN LET h == NewHandle(d.timers)
       IN [d EXCEPT !.timers = @ \cup {[h |-> h, delay |-> PaceDelay(d.windup),
                                         at |-> d.windup.cursor, stale |-> FALSE]},
                    !.timeoutRef = h,
                    !.windupCleanup = TRUE,
                    !.log = Append(@, Event("timer", nextElement(d.windup)))]
  ELSE [d EXCEPT !.windupCleanup = FALSE]

----------------------------------------------------------------------------
\* A render, and the flush of its effects.  p says what the caller changed
\* beside the hook's own state: windupInit, options.skipped, the options object
\* (a caller that builds the options inline passes a new object each render),
\* or everything (the first render).  The render records which dependencies
\* changed since the render before; the flush, a later task, runs the cleanups
\* of the effects whose dependencies changed, then their bodies in declaration
\* order.

Props(initCh, skCh, optsCh, first, w, sk) ==
  [initCh |-> initCh, skCh |-> skCh, optsCh |-> optsCh, first |-> first,
   windupInit |-> w, skipped |-> sk]

Quiet(optsCh) == Props(FALSE, FALSE, optsCh, FALSE, NoWindup, "absent")

\* The render of the state d after the render of the state prev, with props p.
RenderCommit(prev, d, p) ==
  [d EXCEPT
     !.pend = [on |-> TRUE, first |-> p.first, initCh |-> p.initCh,
               skCh |-> p.skCh, optsCh |-> p.optsCh,
               windupCh |-> d.windup.id # prev.windup.id,
               finCh |-> isFinished(d.windup) # isFinished(prev.windup),
               dfoCh |-> d.didFinishOnce # prev.didFinishOnce],
     !.windupInit = IF p.initCh THEN p.windupInit ELSE @,
     !.skipped = IF p.skCh THEN p.skipped ELSE @,
     !.seen = @ \cup {isFinished(d.windup)}]

\* The commit with the slip of the windup effect declared before the onChar
\* effect.
CommitTimerFirst(d) ==
  LET p == d.pend
      onCharDeps == p.first \/ p.windupCh
      finDeps == p.first \/ p.dfoCh \/ p.finCh \/ p.optsCh
      windupDeps == onCharDeps \/ p.finCh
      c0 == [d EXCEPT !.pend = NoPend]
      c1 == IF finDeps THEN OnFinishedCleanup(c0) ELSE c0
      c2 == IF windupDeps THEN WindupCleanup(c1) ELSE c1
      e1 == IF p.first \/ p.initCh THEN ReplaceEffect(c2, d.windupInit) ELSE c2
      e2 == IF p.first \/ p.skCh THEN SkippedEffect(e1, d.skipped) ELSE e1
      e3 == IF windupDeps THEN WindupEffect(e2) ELSE e2
      e4 == IF onCharDeps THEN OnCharEffect(e3) ELSE e3
  IN IF finDeps THEN OnFinishedEffect(e4) ELSE e4

\* The flush of the effects of the last render.
Commit(d) ==
  LET p == d.pend
      onCharDeps == p.first \/ p.windupCh
      finDeps == p.first \/ p.dfoCh \/ p.finCh \/ p.optsCh
      windupDeps == onCharDeps \/ p.finCh
      c0 == [d EXCEPT !.pend = NoPend]
      c1 == IF finDeps THEN OnFinishedCleanup(c0) ELSE c0
      c2 == IF windupDeps THEN WindupCleanup(c1) ELSE c1
      e1 == IF p.first \/ p.initCh THEN ReplaceEffect(c2, d.windupInit) ELSE c2
      e2 == IF p.first \/ p.skCh THEN SkippedEffect(e1, d.skipped) ELSE e1
      e3 == IF onCharDeps THEN OnCharEffect(e2) ELSE e2
      e4 == IF finDeps THEN OnFinishedEffect(e3) ELSE e3
  IN IF windupDeps THEN WindupEffect(e4) ELSE e4

\* Before it renders, React runs the effects that are still waiting.
Flush(d) == IF d.pend.on THEN Commit(d) ELSE d

\* A render with the props p: the waiting effects run, what was dispatched
\* (by a handler before, by those effects now) is reduced, and the result is
\* rendered; its own effects wait.
Render(d, p) ==
  LET f == Flush(d)
  IN RenderCommit(f, ReduceAll([f EXCEPT !.queue = <<>>], f.queue), p)

\* The render that what a handler dispatched causes.
Settle(d, optsCh) == Render(d, Quiet(optsCh))

\* The task that runs the waiting effects, and renders what they dispatched.
PassiveStep(d, optsCh) ==
  LET c == Commit(d)
  IN IF c.queue = <<>> THEN c ELSE Settle(c, optsCh)

----------------------------------------------------------------------------
\* The event handlers

\* The advance timer t fires: dispatch({type: "next"})
NextStep(d, t, optsCh) ==
  LET f == [d EXCEPT !.timers = @ \ {t},
                     !.lastFired = IF t.stale THEN "staleTimer" ELSE "timer"]
  IN Settle(dispatch(f, Act("next")), optsCh)

\* skip(), the function of a render whose windupIsFinished was fin
SkipCall(d, fin) ==
  IF ~fin
  THEN LET c == IF d.timeoutRef # NullHandle
                THEN [d EXCEPT !.timers = clearTimeout(@, d.timeoutRef)]
                ELSE d
       IN dispatch(c, Act("fast-forward"))
  ELSE d

SkipStep(d, fin, optsCh) ==
  LET c == SkipCall(d, fin)
  IN IF c.queue = <<>> THEN c ELSE Settle(c, optsCh)

\* rewind()
RewindCall(d) ==
  LET c == IF d.timeoutRef # NullHandle
           THEN [d EXCEPT !.timers = clearTimeout(@, d.timeoutRef)]
           ELSE d
  IN dispatch(c, Act("rewind"))

RewindStep(d, optsCh) == Settle(RewindCall(d), optsCh)

\* The onFinished timeout with the slip of the finish dispatch made, and
\* applied, before options.onFinished() is called.
FinishStepFlagFirst(d, t, cb, batched, optsCh) ==
  LET f == [d EXCEPT !.finTimers = @ \ {t},
                     !.lastFired = IF t.stale THEN "staleFinish" ELSE "finish"]
      g == Settle(dispatch(f, Act("finish")), optsCh)
      c == [g EXCEPT !.finishedCalls = Bump(@),
                     !.log = Append(@, Event("onFinished", 0))]
  IN IF cb = "rewind" THEN Settle(RewindCall(c), optsCh) ELSE c

\* The deferred onFinished timeout t fires: options.onFinished(), which may
\* itself call rewind() (cb = "rewind"), then dispatch({type: "finish"}).
\* The two dispatches are rendered together where React batches what a
\* timeout dispatches, and one by one where it does not.
FinishStep(d, t, cb, batched, optsCh) ==
  LET f == [d EXCEPT !.finTimers = @ \ {t},
                     !.finishedCalls = Bump(@),
                     !.lastFired = IF t.stale THEN "staleFinish" ELSE "finish",
                     !.log = Append(@, Event("onFinished", 0))]
      c == IF cb # "rewind" THEN f
           ELSE IF batched THEN RewindCall(f)
           ELSE Settle(RewindCall(f), optsCh)
  IN Settle(dispatch(c, Act("finish")), optsCh)

\* A timeout that outlived the component fires: React drops the dispatch of
\* an unmounted component, the callback itself still runs.
LateNextStep(d, t) ==
  [d EXCEPT !.timers = @ \ {t},
            !.lastFired = IF t.stale THEN "staleTimer" ELSE "timer"]

LateFinishStep(d, t) ==
  [d EXCEPT !.finTimers = @ \ {t},
            !.finishedCalls = Bump(@),
            !.lastFired = IF t.stale THEN "staleFinish" ELSE "finish",
            !.log = Append(@, Event("onFinished", 0))]

\* skip() and rewind() called on a component React has removed: the call
\* clears timeoutRef's timer as ever, and React drops its dispatch.
LateSkipStep(d, fin) == [SkipCall(d, fin) EXCEPT !.queue = <<>>]

LateRewindStep(d) == [RewindCall(d) EXCEPT !.queue = <<>>]

\* The caller renders with another windup w as windupInit (a new object)
ReplaceStep(d, w, optsCh) ==
  Render(d, Props(TRUE, FALSE, optsCh, FALSE,
                  [w EXCEPT !.id = OtherId(d.windupInit)], d.skipped))

\* The caller renders with another value sk of options.skipped
SignalStep(d, sk, optsCh) ==
  Render(d, Props(FALSE, TRUE, optsCh, FALSE, d.windupInit, sk))

\* The caller renders again with nothing changed, but for the options object
\* when it builds it inline
RenderStep(d, optsCh) == Render(d, Quiet(optsCh))

\* The cleanups with the slip of the windup effect returning none.
CleanupsLeak(d) == OnFinishedCleanup(d)

\* Every cleanup an effect registered, in declaration order.
Cleanups(d) == WindupCleanup(OnFinishedCleanup(d))

\* The cleanups are waiting to run on a component React has removed.
TeardownWaits == [NoPend EXCEPT !.on = TRUE]

\* The component unmounts: the waiting effects run and what they dispatched
\* is dropped; the cleanups run at once where React runs them in the commit
\* of the unmount, and wait for a task of their own where it defers them.
UnmountStep(d, deferred) ==
  LET f == [Flush(d) EXCEPT !.queue = <<>>]
  IN IF deferred THEN [f EXCEPT !.pend = TeardownWaits] ELSE Cleanups(f)

\* The cleanups of the unmounted component run.
TeardownStep(d) == [Cleanups(d) EXCEPT !.pend = NoPend]

\* The first render of useWindup(windupInit, options); its effects wait.
Mount(w, sk) ==
  LET d0 == [windup |-> w, windupInit |-> w, didFinishOnce |-> FALSE,
             skipped |-> sk, timeoutRef |-> NullHandle,
             timers |-> {}, finTimers |-> {}, finCleanup |-> NullHandle,
             windupCleanup |-> FALSE, pend |-> NoPend, seen |-> {},
             queue |-> <<>>, finishedCalls |-> 0, lastFired |-> "none",
             log |-> <<>>]
  IN RenderCommit(d0, d0, Props(TRUE, TRUE, TRUE, TRUE, w, sk))

----------------------------------------------------------------------------
\* The state machine

\* The control-signal cycle after the task op that left the driver r.
CycleAfter(r, op) ==
  IF op = "signal"
  THEN IF r.skipped = "true" THEN "true"
       ELSE IF r.skipped = "false" /\ cycle \in {"true", "called"}
            THEN IF cycle = "called" THEN "called" ELSE "false"
       ELSE "none"
  ELSE IF op \in {"next", "passive"} THEN cycle
  ELSE IF op \in {"finish", "finishRewind"} /\ cycle # "none" THEN "called"
  ELSE "none"

\* The variables take the driver r that the task op left.  Object identities
\* are only compared between one render and the next, and with windupInit, so
\* the stored windup is renamed to 0 and windupInit with it.
Store(step, op) ==
  \E r \in {step} :
    /\ windup' = [r.windup EXCEPT !.id = 0]
    /\ windupInit' = [r.windupInit EXCEPT
                        !.id = IF r.windupInit.id = r.windup.id THEN 0
                               ELSE IF IsReplacement(r.windupInit) THEN -2
                               ELSE -1]
    /\ didFinishOnce' = r.didFinishOnce
    /\ skipped' = r.skipped
    /\ timeoutRef' = r.timeoutRef
    /\ timers' = r.timers
    /\ finTimers' = r.finTimers
    /\ finCleanup' = r.finCleanup
    /\ windupCleanup' = r.windupCleanup
    /\ pend' = r.pend
    /\ seen' = r.seen
    /\ lastOp' = op
    /\ finishedCalls' = r.finishedCalls
    /\ lastFired' = r.lastFired
    /\ log' = r.log
    /\ cycle' = CycleAfter(r, op)
    /\ UNCHANGED inline

Init ==
  \E w \in InitWindups, sk \in Signals, il \in BOOLEAN :
    \E r \in {Mount(w, sk)} :
       /\ windup = r.windup
       /\ windupInit = r.windupInit
       /\ didFinishOnce = r.didFinishOnce
       /\ skipped = r.skipped
       /\ timeoutRef = r.timeoutRef
       /\ timers = r.timers
       /\ finTimers = r.finTimers
       /\ finCleanup = r.finCleanup
       /\ windupCleanup = r.windupCleanup
       /\ pend = r.pend
       /\ seen = r.seen
       /\ mounted = TRUE
       /\ inline = il
       /\ lastOp = "mount"
       /\ finishedCalls = r.finishedCalls
       /\ lastFired = "none"
       /\ log = r.log
       /\ cycle = "none"

\* The effects of the last render run.
Passive ==
  /\ mounted
  /\ pend.on
  /\ Store(PassiveStep(Pack, inline), "passive")
  /\ UNCHANGED mounted

\* A pending advance timer fires.
TimerFires ==
  /\ \E t \in timers :
       Store(IF mounted THEN NextStep(Pack, t, inline) ELSE LateNextStep(Pack, t),
             "next")
  /\ UNCHANGED mounted

\* A pending onFinished timeout fires; the callback may call rewind().
FinishFires ==
  /\ \E t \in finTimers, cb \in {"none", "rewind"}, batched \in BOOLEAN :
       Store(IF mounted THEN FinishStep(Pack, t, cb, batched, inline)
             ELSE LateFinishStep(Pack, t),
             IF cb = "rewind" THEN "finishRewind" ELSE "finish")
  /\ UNCHANGED mounted

\* The caller calls a skip function the hook returned: the one of the last
\* render, or one it kept from a render before.
Skip ==
  /\ \E fin \in seen :
       Store(IF mounted THEN SkipStep(Pack, fin, inline)
             ELSE LateSkipStep(Pack, fin),
             IF ~mounted THEN "lateSkip"
             ELSE IF fin = isFinished(windup) THEN "skip" ELSE "staleSkip")
  /\ UNCHANGED mounted

\* The caller calls rewind(), which it may have kept past the unmount.
Rewind ==
  /\ Store(IF mounted THEN RewindStep(Pack, inline) ELSE LateRewindStep(Pack),
           IF mounted THEN "rewind" ELSE "lateRewind")
  /\ UNCHANGED mounted

\* The caller passes another windup.
Replace ==
  /\ mounted
  /\ \E w \in Replacements(windupInit) :
       Store(ReplaceStep(Pack, w, inline), "replace")
  /\ UNCHANGED mounted

\* The caller passes another value of options.skipped.
ControlSignal ==
  /\ mounted
  /\ \E sk \in Signals \ {skipped} :
       Store(SignalStep(Pack, sk, TRUE), "signal")
  /\ UNCHANGED mounted

\* The caller renders again with nothing else changed.
Rerender ==
  /\ mounted
  /\ \E optsCh \in {inline, TRUE} : Store(RenderStep(Pack, optsCh), "render")
  /\ UNCHANGED mounted

\* The component unmounts.
Unmount ==
  /\ mounted
  /\ \E deferred \in BOOLEAN : Store(UnmountStep(Pack, deferred), "unmount")
  /\ mounted' = FALSE

\* The cleanups an unmount left waiting run.
Teardown ==
  /\ ~mounted
  /\ pend.on
  /\ Store(TeardownStep(Pack), "teardown")
  /\ UNCHANGED mounted

Next ==
  \/ Passive
  \/ TimerFires
  \/ FinishFires
  \/ Skip
  \/ Rewind
  \/ Replace
  \/ ControlSignal
  \/ Rerender
  \/ Unmount
  \/ Teardown

Spec == Init /\ [][Next]_vars

----------------------------------------------------------------------------
\* The claims

Playing == ~isFinished(windup)
Finished == isFinished(windup)

\* The elements from index a up to the end of a sequence of length n, in order.
Remaining(a, n) == [i \in 1..(n - a) |-> a + i - 1]

\* The effects that wait run, and those of the renders they cause, until none
\* waits.
Quiesce(d) ==
  LET p1 == IF d.pend.on THEN PassiveStep(d, inline) ELSE d
      p2 == IF p1.pend.on THEN PassiveStep(p1, inline) ELSE p1
  IN IF p2.pend.on THEN PassiveStep(p2, inline) ELSE p2

\* The elements onChar was called for in a log, in order.
RECURSIVE RevealsOf(_)
RevealsOf(l) ==
  IF l = <<>> THEN <<>>
  ELSE IF Head(l).e = "reveal" THEN <<Head(l).i>> \o RevealsOf(Tail(l))
  ELSE RevealsOf(Tail(l))

\* The elements an advance timer was set for in a log, in order.
TimersSetIn(l) == SelectSeq(l, LAMBDA x : x.e = "timer")

\* Nothing waits to run but timeouts.
Idle == mounted /\ ~pend.on

\* C1: onFinished is invoked exactly once per play-through: never more than
\* once between two resets, and once for every play-through that has reached
\* Finished and has nothing left to run.
C1_CompletionExactlyOnce ==
  /\ finishedCalls <= 1
  /\ (Idle /\ Finished /\ finTimers = {}) => finishedCalls = 1

\* C2: skip() in a Playing state at cursor k finishes the progression at once
\* and gives onChar every element k..N-1, in increasing order, once each.
C2_SkipRevealsAllRemaining ==
  (Idle /\ Playing /\ onCharsFromWindup(windup))
    => LET s == SkipStep(Pack, FALSE, inline)
       IN /\ isFinished(s.windup)
          /\ RevealsOf(Quiesce(s).log) = Remaining(windup.cursor, windup.len)

\* C3: in a play-through nothing interrupts, a firing of the advance timer
\* moves the cursor by one and gives onChar exactly the element just played,
\* and the firing that plays the last element leaves the state Finished.
C3_UninterruptedPlay ==
  (Idle /\ Playing)
    => \A t \in timers :
         LET s == NextStep(Pack, t, inline)
         IN /\ s.windup.cursor = windup.cursor + 1
            /\ RevealsOf(Quiesce(s).log) =
                 IF onCharsFromWindup(windup) THEN <<windup.cursor>> ELSE <<>>
            /\ windup.cursor + 1 = windup.len => isFinished(s.windup)

\* C4: a control signal that becomes absent changes nothing: the progression,
\* didFinishOnce, the pending advance timer and the pending notification.
C4_AbsentSignalNoEffect ==
  (Idle /\ skipped # "absent")
    => LET s == Quiesce(SignalStep(Pack, "absent", TRUE))
       IN /\ s.windup.cursor = windup.cursor
          /\ s.windup.len = windup.len
          /\ s.didFinishOnce = didFinishOnce
          /\ (s.timers # {}) = (timers # {})
          /\ (s.finTimers # {}) = (finTimers # {})

\* C5: the engine never stalls: a driver in a Playing state with no effect
\* waiting to run always has an advance timer pending.
C5_NeverStalls == (Idle /\ Playing) => timers # {}

\* C6: a rewind or a replace cancels the notification that is queued: none of
\* the superseded play-through stays queued once the effects have run, and
\* none is ever delivered.
C6_ResetCancelsNotification ==
  /\ lastFired # "staleFinish"
  /\ Idle => \A t \in finTimers : ~t.stale

\* C7: a replace in mid-playback cancels the timer of the old sequence before
\* it can act: no advance timer of a replaced sequence ever fires or stays
\* pending once the effects have run, and the replace calls no onChar and
\* starts the new progression at cursor 0 with didFinishOnce false.
C7_ReplaceCancelsOldTimer ==
  /\ lastFired # "staleTimer"
  /\ Idle => \A t \in timers : ~t.stale
  /\ (Idle /\ Playing /\ timers # {})
       => \A w \in Replacements(windupInit) :
            LET s == Quiesce(ReplaceStep(Pack, w, inline))
            IN /\ s.windup.cursor = 0
               /\ s.windup.len = w.len
               /\ s.didFinishOnce = FALSE
               /\ RevealsOf(s.log) = <<>>

\* C8: after the control signal went to true and then to false, onFinished
\* was not called since the signal went to true, and didFinishOnce is false
\* once the effects have run.
C8_NoCallbackInCycle ==
  /\ skipped = "false" => cycle # "called"
  /\ (Idle /\ cycle = "false") => ~didFinishOnce

\* C9: skip() on a Finished progression changes nothing: not the progression,
\* not didFinishOnce, not a timeout, and it calls neither onChar nor onFinished.
C9_SkipWhenFinishedNoOp ==
  (Idle /\ Finished)
    => \A fin \in seen :
         LET s == Quiesce(SkipStep(Pack, fin, inline))
         IN /\ s.windup = windup
            /\ s.didFinishOnce = didFinishOnce
            /\ s.timers = timers
            /\ s.finTimers = finTimers
            /\ s.log = <<>>

\* What a caller can observe of the driver a task and its effects left.
Observed(r) ==
  [cursor |-> r.windup.cursor, len |-> r.windup.len, fin |-> r.didFinishOnce,
   adv |-> {t.delay : t \in r.timers}, defer |-> r.finTimers # {},
   log |-> r.log]

\* C10: from every state, the control signal going to true leaves what skip()
\* leaves, and going to false what rewind() leaves.
C10_SignalBehavesAsCalls ==
  Idle =>
    /\ skipped # "true"
         => Observed(Quiesce(SignalStep(Pack, "true", TRUE)))
              = Observed(Quiesce(SkipStep(Pack, isFinished(windup), TRUE)))
    /\ skipped # "false"
         => Observed(Quiesce(SignalStep(Pack, "false", TRUE)))
              = Observed(Quiesce(RewindStep(Pack, TRUE)))

\* The caller changed windupInit or options.skipped in the last render, or it
\* was the first render, and the effects that answer it have not run yet.
CallerChangeWaits == pend.on /\ (pend.first \/ pend.initCh \/ pend.skCh)

\* C11: a call of rewind(), made in any state, clears the advance timer that
\* was pending (a timer pending after the call was set by the effects that ran
\* in it) and leaves the same sequence at cursor 0 with didFinishOnce false;
\* once the effects of its render have run, exactly one advance timer, with no
\* delay, is pending for the first element (none when the sequence is empty).
C11_RewindRestarts ==
  /\ lastOp = "rewind"
       => /\ ~didFinishOnce
          /\ lastFired = "none"
          /\ skipped # "true" => windup.cursor = 0
  /\ (mounted /\ ~CallerChangeWaits)
       => LET s == RewindStep(Pack, inline)
              q == Quiesce(s)
          IN /\ s.windup.cursor = 0
             /\ s.windup.len = windup.len
             /\ s.didFinishOnce = FALSE
             /\ Cardinality(s.timers) <= Len(TimersSetIn(s.log))
             /\ q.windup.cursor = 0
             /\ Cardinality(q.timers) = IF windup.len > 0 THEN 1 ELSE 0
             /\ \A t \in q.timers :
                  t.h = q.timeoutRef /\ ~t.stale /\ t.delay = 0 /\ t.at = 0

C11_Witness ==
  /\ lastOp = "rewind" /\ windup.len >= 2 /\ windup.cursor = 0
  /\ ~didFinishOnce /\ timers = {} /\ finTimers # {} /\ pend.windupCh

\* C12: once the cleanups of the unmounted component have run, no advance
\* timer and no onFinished timeout is pending, and no timeout has fired
\* since: no next transition, no onChar and no onFinished call.  All the
\* caller can still do is call a skip() or rewind() it kept, which changes
\* nothing.
C12_UnmountCancelsAll ==
  (~mounted /\ ~pend.on)
    => /\ timers = {}
       /\ finTimers = {}
       /\ lastOp \in {"unmount", "teardown", "lateSkip", "lateRewind"}
       /\ lastFired = "none"
       /\ \A k \in 1..Len(log) : log[k].e \notin {"onFinished", "flag"}
       /\ LateRewindStep(Pack) = Pack
       /\ \A fin \in seen : LateSkipStep(Pack, fin) = Pack

C12_Witness ==
  /\ ~mounted /\ ~pend.on /\ lastOp = "teardown"
  /\ windup.cursor > 0 /\ Playing /\ timers = {} /\ windupCleanup

\* C13: a driver that was given an empty sequence (every render so far was
\* finished) has no advance timer pending, calls no onChar, and calls
\* onFinished once in a play-through: never more than once, and once by the
\* time nothing is left to run.
C13_EmptySequence ==
  seen = {TRUE}
    => /\ windup.len = 0
       /\ timers = {}
       /\ \A k \in 1..Len(log) : log[k].e \notin {"reveal", "timer"}
       /\ finishedCalls <= 1
       /\ (Idle /\ finTimers = {}) => finishedCalls = 1

\* C14: at most one timeout is pending at any time: at most one advance
\* timer, at most one onFinished timeout, never one of each, and an advance
\* timer that is pending is the one timeoutRef holds.
C14_AtMostOneTimer ==
  /\ Cardinality(timers) <= 1
  /\ Cardinality(finTimers) <= 1
  /\ ~(timers # {} /\ finTimers # {})
  /\ \A t \in timers : t.h = timeoutRef

C14_Witness ==
  /\ lastOp = "passive" /\ windup.cursor = 2 /\ Playing
  /\ Cardinality(timers) = 1 /\ finTimers = {}
  /\ \E t \in timers : t.at = 2 /\ t.h = timeoutRef

\* C15: the cursor stays within 0..len; a task that lowers it leaves it at 0
\* (it applied a rewind or a replace); in a finished state the reducer's next
\* and fast-forward leave the cursor at len, and in any state only its rewind
\* and replace lower the cursor.
C15_CursorBounds ==
  [][/\ windup'.cursor \in 0..windup'.len
     /\ windup'.cursor < windup.cursor => windup'.cursor = 0
     /\ \A t \in {"next", "fast-forward", "finish"} :
          LET s == windupReducer([windup |-> windup',
                                  didFinishOnce |-> didFinishOnce'], Act(t))
          IN /\ s.windup.cursor >= windup'.cursor
             /\ s.windup.cursor <= windup'.len
             /\ isFinished(windup') => s.windup.cursor = windup'.len
     /\ windupReducer([windup |-> windup', didFinishOnce |-> didFinishOnce'],
                      Act("rewind")).windup.cursor = 0]_vars

C15_Witness ==
  /\ lastOp = "passive" /\ skipped = "false"
  /\ windup.cursor = 0 /\ windup.len >= 2
  /\ pend.windupCh /\ pend.finCh /\ finTimers # {}

\* C16: in every task the onChar call for element i comes before the setting
\* of the advance timer that will play element i + 1, and onChar is never
\* called for element i in a task that began with that timer pending; the
\* effects of a render that played element i and left the sequence unfinished
\* call onChar and then set the timer.
C16_RevealBeforeSchedule ==
  [][/\ \A a \in 1..Len(log') : \A b \in 1..Len(log') :
          (log'[a].e = "timer" /\ log'[b].e = "reveal" /\ log'[a].i = log'[b].i + 1)
            => b < a
     /\ \A b \in 1..Len(log') :
          log'[b].e = "reveal"
            => \A t \in timers : t.stale \/ t.at # log'[b].i + 1
     /\ (lastOp' = "passive" /\ pend.windupCh /\ Playing /\ windup.cursor > 0)
          => \E k \in 1..Len(log') :
               /\ log'[k] = Event("timer", windup.cursor)
               /\ (onCharsFromWindup(windup) /\ Truthy(windup, windup.cursor - 1))
                    => k > 1 /\ log'[k - 1] = Event("reveal", windup.cursor - 1)]_vars

C16_Witness ==
  /\ lastOp = "passive" /\ Playing /\ windup.cursor >= 2
  /\ log = <<Event("reveal", windup.cursor - 1), Event("timer", windup.cursor)>>

\* C17: onFinished is called only by a timeout that an earlier task queued,
\* and a timeout is queued only by the effects of a render that was finished
\* with didFinishOnce false; the task that finishes the sequence calls no
\* onFinished of that play-through; didFinishOnce becomes true only in the task
\* that called onFinished, and after the call.
C17_DeferredCompletion ==
  [][/\ (\E k \in 1..Len(log') : log'[k].e = "onFinished")
          => /\ finTimers # {}
             /\ lastOp' \in {"finish", "finishRewind"}
             /\ log'[1].e = "onFinished"
     /\ \A k \in 1..Len(log') :
          log'[k].e = "flag" => \E j \in 1..(k - 1) : log'[j].e = "onFinished"
     /\ (didFinishOnce' /\ ~didFinishOnce)
          => \E k \in 1..Len(log') : log'[k].e = "flag"
     /\ (\E t \in finTimers' : ~t.stale /\ t \notin finTimers)
          => \/ pend.on /\ Finished /\ ~didFinishOnce
             \/ lastOp' = "finishRewind"
     /\ (Playing /\ isFinished(windup') /\ lastOp' \in {"next", "skip", "staleSkip"})
          => /\ \A k \in 1..Len(log') : log'[k].e # "onFinished"
             /\ pend'.on]_vars

C17_Witness ==
  /\ lastOp = "finish" /\ didFinishOnce /\ Finished
  /\ windup.len > 0 /\ finishedCalls = 1 /\ finTimers = {}
  /\ log = <<Event("onFinished", 0), Event("flag", 0)>>

\* C18: an advance timer set at cursor 0 has delay 0; one set at a cursor
\* above 0 has the delay the sequence's own pace function gives for the last
\* played and the next element, or the default pace's when the sequence has
\* none.
C18_TimerDelay ==
  \A t \in timers :
    t.delay = IF t.at = 0 THEN 0
              ELSE IF paceFromWindup(windup) = "custom"
                   THEN customPace(t.at - 1, t.at)
                   ELSE defaultGetPace(t.at - 1, t.at)

\* C19: the delay of an advance timer is never negative.
C19_DelayNeverNegative ==
  \A t \in timers : t.delay >= 0

\* C20: didFinishOnce is true only in a finished state.
C20_FinishedOnceImpliesFinished ==
  didFinishOnce => Finished

====
